---- MODULE Spec2Model ----
(***************************************************************************)
(* Model of the static data-cy scanner.                                    *)
(*                                                                         *)
(*   src/src/utils/nameGenerator.js   slugify, generateTag                 *)
(*   src/src/static/scanner.js        extractSuggestionsFromAST (declared  *)
(*                                    twice in the file), run              *)
(*                                                                         *)
(* A JavaScript string is a sequence of one-character strings.  The value  *)
(* null/undefined is the one-element sequence NULL, which is no string.    *)
(***************************************************************************)
EXTENDS Integers, Sequences, FiniteSets, TLC

VARIABLES
    \* ---- generateTag called on its own (specification SpecTag)
    info,           \* the argument object of generateTag
    parts,          \* the token list built by generateTag, before join
    slug,           \* the value generateTag returned
    tpc,            \* "input": info chosen, "output": generateTag has returned
    \* ---- one scan run (specification Spec)
    copy,           \* which declaration of extractSuggestionsFromAST runs (1, 2)
    pc,             \* position of run(): "loop", "visit", "done"
    nfiles,         \* number of files of `relevant` handled so far
    tree,           \* the syntax tree of the file being scanned
    stack,          \* element paths the traversal has still to visit
    visited,        \* element nodes visitJSXElement was called on, in order
    suggestions,    \* the array `suggestions` of the current call
    allSuggestions, \* the array `allSuggestions` of run
    scans           \* for each finished call: its tree, its visits, its result

tagVars  == <<info, parts, slug, tpc>>
scanVars == <<copy, pc, nfiles, tree, stack, visited, suggestions,
              allSuggestions, scans>>
vars     == <<info, parts, slug, tpc, copy, pc, nfiles, tree, stack, visited,
              suggestions, allSuggestions, scans>>

-----------------------------------------------------------------------------
(* Bounds of the model *)

MaxOrdinal == 11    \* largest index handed to generateTag in SpecTag
MaxFiles   == 2     \* files handled by one run

(* Constants of the program *)

MaxSlugLen == 60    \* slice(0, 60)
MaxWords   == 5     \* slice(0,5)

-----------------------------------------------------------------------------
(* Strings *)

NULL == <<"null">>

Truthy(v) == v # NULL /\ v # <<>>

\* a || b of JavaScript, on strings and null
Or(a, b) == IF Truthy(a) THEN a ELSE b

Lowers == <<"a","b","c","d","e","f","g","h","i","j","k","l","m",
            "n","o","p","q","r","s","t","u","v","w","x","y","z">>
Uppers == <<"A","B","C","D","E","F","G","H","I","J","K","L","M",
            "N","O","P","Q","R","S","T","U","V","W","X","Y","Z">>
Digits == <<"0","1","2","3","4","5","6","7","8","9">>

Range(s) == {s[i] : i \in 1..Len(s)}

IsUpper(c) == c \in Range(Uppers)
IsAlnum(c) == c \in Range(Lowers) \cup Range(Digits)
IsSpace(c) == c \in {" ", "\t", "\n", "\r"}

LowerChar(c) ==
    IF IsUpper(c) THEN Lowers[CHOOSE i \in 1..26 : Uppers[i] = c] ELSE c

\* String.prototype.toLowerCase
toLowerCase(s) == [i \in 1..Len(s) |-> LowerChar(s[i])]

\* String.prototype.trim: from the first to the last character that is no
\* whitespace
trim(s) ==
    LET solid == {i \in 1..Len(s) : ~IsSpace(s[i])}
    IN  IF solid = {} THEN <<>>
        ELSE SubSeq(s, CHOOSE i \in solid : \A j \in solid : i <= j,
                       CHOOSE i \in solid : \A j \in solid : j <= i)

\* s.slice(0, n)
slice(s, n) == SubSeq(s, 1, IF Len(s) < n THEN Len(s) ELSE n)

\* the indices at which the sequence of booleans flags is TRUE, ascending
Indices(flags) ==
    LET Set(i) == flags[i] IN SelectSeq([i \in 1..Len(flags) |-> i], Set)

\* s.split(sep): the pieces between the occurrences of the character sep
split(s, sep) ==
    LET cuts == <<0>> \o Indices([i \in 1..Len(s) |-> s[i] = sep])
                      \o <<Len(s) + 1>>
    IN  [k \in 1..(Len(cuts) - 1) |-> SubSeq(s, cuts[k] + 1, cuts[k + 1] - 1)]

\* pieces.join(sep)
RECURSIVE join(_, _)
join(pieces, sep) ==
    IF pieces = <<>> THEN <<>>
    ELSE IF Len(pieces) = 1 THEN pieces[1]
    ELSE pieces[1] \o sep \o join(Tail(pieces), sep)

\* String(n) for an integer n
RECURSIVE NatString(_)
NatString(n) ==
    IF n < 10 THEN <<Digits[n + 1]>>
    ELSE Append(NatString(n \div 10), Digits[(n % 10) + 1])

String(n) == IF n < 0 THEN <<"-">> \o NatString(-n) ELSE NatString(n)

\* s.replace(re, '-') for re = /C+/g, where inClass[i] tells whether s[i]
\* is of the class C: every maximal run of such characters becomes one '-'
ReplaceClassRuns(s, inClass) ==
    LET at == Indices([i \in 1..Len(s) |->
                          ~inClass[i] \/ i = 1 \/ ~inClass[i - 1]])
    IN  [k \in 1..Len(at) |-> IF inClass[at[k]] THEN "-" ELSE s[at[k]]]

\* s.replace(/[^a-z0-9]+/g, '-')
ReplaceRuns(s) == ReplaceClassRuns(s, [i \in 1..Len(s) |-> ~IsAlnum(s[i])])

\* s.replace(/(^-|-$)/g, ''): one '-' at the start and one at the end go
StripEnds(s) ==
    LET a == IF s # <<>> /\ Head(s) = "-" THEN Tail(s) ELSE s
    IN  IF a # <<>> /\ a[Len(a)] = "-" THEN SubSeq(a, 1, Len(a) - 1) ELSE a

-----------------------------------------------------------------------------
(* nameGenerator.js *)

slugify_NoSlice(s) == StripEnds(ReplaceRuns(toLowerCase(s)))

slugify_NoLower(s) == slice(StripEnds(ReplaceRuns(s)), MaxSlugLen)

slugify(s) == slice(StripEnds(ReplaceRuns(toLowerCase(s))), MaxSlugLen)

\* s.replace(/[^a-z0-9]+/gi, '-'): with the i flag the class holds the
\* characters that are no letter of either case and no digit
ReplaceRunsI(s) ==
    ReplaceClassRuns(s, [i \in 1..Len(s) |-> ~IsAlnum(LowerChar(s[i]))])

\* info.compPath.replace(/[^a-z0-9]+/gi, '-').toLowerCase()
CompPathPart(p) == toLowerCase(ReplaceRunsI(p))

\* const role = info.tag === 'a' ? 'link' : info.tag
RoleOf(tag) == IF tag = <<"a">> THEN <<"l","i","n","k">> ELSE tag

\* (info.text || info.aria || info.placeholder || info.alt || '').trim()
TagText(i) == trim(Or(i.text, Or(i.aria, Or(i.placeholder, Or(i.alt, <<>>)))))

\* text.split('\n')[0].trim().split(' ').slice(0,5).join(' ')
TextPart(text) ==
    LET words == split(trim(split(text, "\n")[1]), " ")
    IN  join(SubSeq(words, 1, IF Len(words) < MaxWords THEN Len(words)
                                                        ELSE MaxWords), <<" ">>)

\* the array `parts` of generateTag when it reaches the return
TagParts(i) ==
    (IF Truthy(i.compPath) THEN <<CompPathPart(i.compPath)>> ELSE <<>>)
    \o <<RoleOf(i.tag)>>
    \o (IF TagText(i) # <<>> THEN <<TextPart(TagText(i))>> ELSE <<>>)
    \o (IF i.hasIndex THEN <<String(i.index)>> ELSE <<>>)

generateTag(i) == slugify(join(TagParts(i), <<"-">>))

-----------------------------------------------------------------------------
(* Inputs of generateTag called on its own *)

Words(n, c) == [i \in 1..n |-> c]

S_button == <<"b","u","t","t","o","n">>
S_a      == <<"a">>
S_div    == <<"d","i","v">>
S_input  == <<"i","n","p","u","t">>
S_select == <<"s","e","l","e","c","t">>
S_el     == <<"e","l">>
S_link   == <<"l","i","n","k">>
S_textarea == <<"t","e","x","t","a","r","e","a">>

H_submit == <<"S","u","b","m","i","t"," ","F","o","r","m">>
H_custom == <<"C","u","s","t","o","m"," ","B","u","t","t","o","n">>
H_email  == <<"E","m","a","i","l"," ","a","d","d","r","e","s","s">>
H_learn  == <<"L","e","a","r","n"," ","M","o","r","e">>
H_blank  == <<" "," ">>
H_symbol == <<"*">>
H_lines  == <<" ","H","i","\n","y","o","u">>
H_six    == <<"a"," ","b"," ","c"," ","d"," ","e"," ","f">>
H_runs   == <<"a"," "," ","b"," ","c"," ","d"," ","e"," ","f">>
H_tab    == <<"a","\t","b"," ","c"," ","d"," ","e"," ","f">>
\* five words of twelve letters: the joined tokens pass 60 characters
H_long   == join(<<Words(12, "x"), Words(12, "y"), Words(12, "x"),
                   Words(12, "y"), Words(12, "x")>>, <<" ">>)
\* the fourth word ends at character 59 of "button-..."
H_edge   == join(<<Words(12, "x"), Words(12, "y"), Words(12, "x"),
                   Words(12, "y"), Words(3, "z")>>, <<" ">>)

TagRoles == {S_button, S_a, S_div, S_select, S_el, <<"#">>, <<"M","y","-","B">>}
TagHints == {<<>>, NULL, H_submit, H_custom, H_learn, H_blank, H_symbol,
             H_lines, H_six, H_runs, H_tab, H_long, H_edge}

\* the info objects handed to generateTag
Infos ==
    [tag : TagRoles, text : TagHints, aria : {NULL, H_email},
     placeholder : {NULL}, alt : {NULL, H_learn}, compPath : {NULL},
     hasIndex : {TRUE}, index : 0..MaxOrdinal]
    \cup
    [tag : {S_button, <<"#">>}, text : {<<>>, H_submit}, aria : {NULL},
     placeholder : {NULL, H_email}, alt : {NULL},
     compPath : {NULL, <<"s","r","c","/","A","p","p">>},
     hasIndex : BOOLEAN, index : {0}]

NoInfo == [tag |-> S_el, text |-> NULL, aria |-> NULL, placeholder |-> NULL,
           alt |-> NULL, compPath |-> NULL, hasIndex |-> FALSE, index |-> 0]

-----------------------------------------------------------------------------
(* The syntax tree handed to extractSuggestionsFromAST *)

\* A JSXAttribute: name is attr.name.name ("" when attr has no name, as a
\* spread attribute), lit is attr.value.value (NULL unless the value is a
\* string literal), expr is attr.value.expression.value (NULL unless the
\* value is an expression container holding a literal).
Attr(nm, lit, expr) == [name |-> nm, lit |-> lit, expr |-> expr]

\* A child of a JSXElement: JSXText with its value, JSXExpressionContainer
\* with the type and value of its expression, JSXElement with the id of the
\* element, or "null" for a hole in a malformed children array.
Text(v)      == [type |-> "JSXText", etype |-> "", value |-> v, id |-> 0]
Expr(et, v)  == [type |-> "JSXExpressionContainer", etype |-> et,
                 value |-> v, id |-> 0]
Elem(i)      == [type |-> "JSXElement", etype |-> "", value |-> NULL, id |-> i]
Hole         == [type |-> "null", etype |-> "", value |-> NULL, id |-> 0]

\* An element without its element children.  attrsOk is FALSE when
\* opening.attributes is no array.
Kind(nt, nm, ok, attrs, ch) ==
    [hasOpening |-> TRUE, nameType |-> nt, name |-> nm, attrsOk |-> ok,
     attrs |-> attrs, children |-> ch]

H_go    == <<"G","o">>
H_close == <<"C","l","o","s","e">>
H_tip   == <<"T","i","p">>
H_name  == <<"N","a","m","e">>

K_button == Kind("JSXIdentifier", S_button, TRUE,
                 <<Attr("", NULL, NULL)>>, <<Text(<<"\n"," ">> \o H_go \o <<" ">>)>>)
K_marked == Kind("JSXIdentifier", S_button, TRUE,
                 <<Attr("data-cy", <<"x">>, NULL)>>, <<Text(H_go)>>)
K_markedDyn == Kind("JSXIdentifier", S_input, TRUE,
                 <<Attr("aria-label", H_email, NULL), Attr("data-cy", NULL, NULL)>>,
                 <<>>)
K_comp   == Kind("JSXIdentifier", <<"M","y","B","u","t","t","o","n">>, TRUE,
                 <<Attr("role", S_button, NULL)>>, <<Text(H_go)>>)
K_custom == Kind("JSXIdentifier", S_div, TRUE,
                 <<Attr("role", S_button, NULL), Attr("onClick", NULL, NULL)>>,
                 <<Text(<<"\n"," "," ">> \o H_custom \o <<"\n"," ">>)>>)
K_plain  == Kind("JSXIdentifier", S_div, TRUE,
                 <<Attr("className", <<"i","n","f","o">>, NULL)>>, <<Text(H_go)>>)
K_input  == Kind("JSXIdentifier", S_input, TRUE,
                 <<Attr("placeholder", H_name, NULL),
                   Attr("aria-label", NULL, H_email)>>, <<>>)
K_blank  == Kind("JSXIdentifier", S_button, TRUE,
                 <<Attr("aria-label", H_close, NULL)>>,
                 <<Expr("StringLiteral", <<" ">>)>>)
K_link   == Kind("JSXIdentifier", S_a, TRUE,
                 <<Attr("title", H_tip, NULL), Attr("alt", <<>>, NULL)>>,
                 <<Text(<<"\n"," ">>), Expr("Identifier", NULL)>>)
K_select == Kind("JSXIdentifier", S_select, TRUE, <<>>, <<>>)
K_member == Kind("JSXMemberExpression", <<"B","a","r">>, TRUE,
                 <<Attr("role", S_button, NULL)>>, <<Text(H_go)>>)
K_hole   == Kind("JSXIdentifier", S_button, TRUE,
                 <<Attr("aria-label", H_close, NULL)>>, <<Hole>>)
K_badAttrs == Kind("JSXIdentifier", S_textarea, FALSE, <<>>, <<Text(H_go)>>)
K_noOpening == [Kind("JSXIdentifier", S_button, TRUE, <<>>, <<Text(H_go)>>)
                EXCEPT !.hasOpening = FALSE]

Kinds == {K_button, K_marked, K_markedDyn, K_comp, K_custom, K_plain, K_input,
          K_blank, K_link, K_select, K_member, K_hole, K_badAttrs, K_noOpening}

\* the kinds the elements of the trees of three elements are drawn from
CoreKinds == {K_button, K_marked, K_comp, K_custom, K_blank, K_hole}

\* The shapes of the trees: for each element id, the ids of its element
\* children, left to right.
SmallShapes == { [root |-> 1, kids |-> <<(<<>>)>>],
                 [root |-> 2, kids |-> <<(<<>>), <<1>>>>] }
BigShapes   == { [root |-> 2, kids |-> <<(<<>>), <<3>>, <<1>>>>],
                 [root |-> 2, kids |-> <<(<<>>), <<3, 1>>, <<>>>>] }

ElemSeq(ids) == [i \in 1..Len(ids) |-> Elem(ids[i])]

MakeTree(sh, ks) ==
    [root  |-> sh.root,
     nodes |-> [i \in 1..Len(sh.kids) |->
                  [hasOpening |-> ks[i].hasOpening, nameType |-> ks[i].nameType,
                   name |-> ks[i].name, attrsOk |-> ks[i].attrsOk,
                   attrs |-> ks[i].attrs,
                   children |-> ks[i].children \o ElemSeq(sh.kids[i]),
                   line |-> i]]]

DeepKinds  == {K_button, K_comp, K_hole}
DeepShapes == { [root |-> 3, kids |-> <<(<<2>>), <<>>, <<1, 4>>, <<>>>>] }

\* line is opening.loc.start.line: every element on a line of its own
Trees ==
    UNION { {MakeTree(sh, ks) : ks \in [1..Len(sh.kids) -> Kinds]} :
            sh \in SmallShapes }
    \cup
    UNION { {MakeTree(sh, ks) : ks \in [1..Len(sh.kids) -> CoreKinds]} :
            sh \in BigShapes }
    \cup
    UNION { {MakeTree(sh, ks) : ks \in [1..Len(sh.kids) -> DeepKinds]} :
            sh \in DeepShapes }

NoTree == [root |-> 0, nodes |-> <<>>]

-----------------------------------------------------------------------------
(* scanner.js: classification of one element *)

InteractiveTags == {S_button, S_a, S_input, S_select, S_textarea}

\* /^[A-Z]/.test(nameNode.name) on a JSXIdentifier
IsComponent(n) ==
    n.nameType = "JSXIdentifier" /\ n.name # <<>> /\ IsUpper(n.name[1])

\* first declaration: tag stays null unless the name is a JSXIdentifier
ElementTag1(n) ==
    IF n.nameType = "JSXIdentifier" THEN toLowerCase(n.name) ELSE NULL

\* second declaration: a member expression gives its property name
ElementTag2(n) ==
    IF n.nameType = "JSXIdentifier" THEN toLowerCase(n.name)
    ELSE IF n.nameType = "JSXMemberExpression"
         THEN (IF Truthy(n.name) THEN toLowerCase(n.name) ELSE NULL)
    ELSE NULL

\* attrs.some(attr => attr.name.name === "role" && attr.value.value === "button")
HasRoleButton(attrs) ==
    \E i \in 1..Len(attrs) : attrs[i].name = "role" /\ attrs[i].lit = S_button

IsInteractive(tag, attrs) == tag \in InteractiveTags \/ HasRoleButton(attrs)

HasDataCy_LiteralOnly(attrs) ==
    \E i \in 1..Len(attrs) : attrs[i].name = "data-cy" /\ Truthy(attrs[i].lit)

\* attrs.some(a => a.name.name === "data-cy")
HasDataCy(attrs) == \E i \in 1..Len(attrs) : attrs[i].name = "data-cy"

\* the loop over path.node.children: the text found, or a throw on ch.type
\* of a hole
RECURSIVE ChildText(_)
ChildText(ch) ==
    IF ch = <<>> THEN [threw |-> FALSE, text |-> <<>>]
    ELSE LET c == Head(ch) IN
         IF c.type = "null" THEN [threw |-> TRUE, text |-> <<>>]
         ELSE IF c.type = "JSXText" /\ Truthy(c.value) /\ trim(c.value) # <<>>
              THEN [threw |-> FALSE, text |-> trim(c.value)]
         ELSE IF c.type = "JSXExpressionContainer" /\ c.etype = "StringLiteral"
              THEN [threw |-> FALSE, text |-> c.value]
         ELSE ChildText(Tail(ch))

\* first declaration: attr.value?.value || attr.value?.expression?.value || null
\* of the last attribute named nm (every attribute named nm assigns)
RECURSIVE AttrValue1(_, _)
AttrValue1(attrs, nm) ==
    IF attrs = <<>> THEN NULL
    ELSE LET a == attrs[Len(attrs)] IN
         IF a.name = nm THEN Or(a.lit, Or(a.expr, NULL))
         ELSE AttrValue1(SubSeq(attrs, 1, Len(attrs) - 1), nm)

\* second declaration: the last attribute named nm with a truthy
\* attr.value.value assigns it
RECURSIVE AttrValue2(_, _)
AttrValue2(attrs, nm) ==
    IF attrs = <<>> THEN NULL
    ELSE LET a == attrs[Len(attrs)] IN
         IF a.name = nm /\ Truthy(a.lit) THEN a.lit
         ELSE AttrValue2(SubSeq(attrs, 1, Len(attrs) - 1), nm)

\* (text || aria || placeholder || alt || title || tag || "").toString()
NameSource(text, aria, placeholder, alt, title, tag) ==
    Or(text, Or(aria, Or(placeholder, Or(alt, Or(title, Or(tag, <<>>))))))

Ordinal_Global(sug, all) == Len(all) + Len(sug)

\* the index handed to generateTag: suggestions.length
Ordinal(sug, all) == Len(sug)

\* the object pushed on suggestions
Suggestion(file, n, tag, nameSource, ordinal) ==
    [file |-> file, line |-> n.line, tag |-> Or(tag, S_el), text |-> nameSource,
     dataCy |-> generateTag([tag |-> Or(tag, S_el), text |-> nameSource,
                             aria |-> NULL, placeholder |-> NULL, alt |-> NULL,
                             compPath |-> NULL, hasIndex |-> TRUE,
                             index |-> ordinal])]

Skip(why) == [outcome |-> why, rec |-> <<>>]

\* the try block of visitJSXElement, first declaration
Classify1(n, file, ordinal) ==
    IF ~n.hasOpening THEN Skip("noOpening")
    ELSE IF IsComponent(n) THEN Skip("component")
    ELSE IF ~n.attrsOk THEN Skip("throw")
    ELSE LET tag == ElementTag1(n) IN
    IF ~IsInteractive(tag, n.attrs) THEN Skip("notInteractive")
    ELSE IF HasDataCy(n.attrs) THEN Skip("hasDataCy")
    ELSE LET t == ChildText(n.children) IN
    IF t.threw THEN Skip("throw")
    ELSE [outcome |-> "emit",
          rec |-> Suggestion(file, n, tag,
                     NameSource(t.text, AttrValue1(n.attrs, "aria-label"),
                                AttrValue1(n.attrs, "placeholder"),
                                AttrValue1(n.attrs, "alt"),
                                AttrValue1(n.attrs, "title"), tag), ordinal)]

\* the try block of visitJSXElement, second declaration
Classify2(n, file, ordinal) ==
    IF ~n.hasOpening THEN Skip("noOpening")
    ELSE IF ~n.attrsOk THEN Skip("throw")
    ELSE LET tag == ElementTag2(n) IN
    IF ~IsInteractive(tag, n.attrs) THEN Skip("notInteractive")
    ELSE IF HasDataCy(n.attrs) THEN Skip("hasDataCy")
    ELSE LET t == ChildText(n.children) IN
    IF t.threw THEN Skip("throw")
    ELSE [outcome |-> "emit",
          rec |-> Suggestion(file, n, tag,
                     NameSource(t.text, AttrValue2(n.attrs, "aria-label"),
                                AttrValue2(n.attrs, "placeholder"),
                                AttrValue2(n.attrs, "alt"),
                                AttrValue2(n.attrs, "title"), tag), ordinal)]

Classify(c, n, file, ordinal) ==
    IF c = 1 THEN Classify1(n, file, ordinal) ELSE Classify2(n, file, ordinal)

\* the ids of the JSXElement children of n, left to right
RECURSIVE ElementIds(_)
ElementIds(ch) ==
    IF ch = <<>> THEN <<>>
    ELSE IF Head(ch).type = "JSXElement"
         THEN <<Head(ch).id>> \o ElementIds(Tail(ch))
    ELSE ElementIds(Tail(ch))

RECURSIVE Reverse(_)
Reverse(q) == IF q = <<>> THEN <<>> ELSE Append(Reverse(Tail(q)), Head(q))

Traverse_Reversed(n, pending) == Reverse(ElementIds(n.children)) \o pending

\* this.traverse(path): the element children are visited next, left to
\* right, each with its own subtree, before what was pending
Traverse(n, pending) == ElementIds(n.children) \o pending

-----------------------------------------------------------------------------
(* The markup after a developer has applied the suggestions of a scan:     *)
(* every suggested element carries data-cy with the suggested value.       *)

Annotate(t, result) ==
    [t EXCEPT !.nodes =
        [i \in DOMAIN t.nodes |->
            IF \E k \in 1..Len(result) : result[k].line = t.nodes[i].line
            THEN [t.nodes[i] EXCEPT !.attrs =
                    Append(@, Attr("data-cy",
                        result[CHOOSE k \in 1..Len(result) :
                                 result[k].line = t.nodes[i].line].dataCy, NULL))]
            ELSE t.nodes[i]]]

\* the files a run goes on with: a file scanned before, unchanged or with
\* its suggestions applied
LaterTrees ==
    {scans[k].tree : k \in 1..Len(scans)}
    \cup {Annotate(scans[k].tree, scans[k].result) : k \in 1..Len(scans)}

-----------------------------------------------------------------------------
(* scanner.js: run *)

TagIdle == info = NoInfo /\ parts = <<>> /\ slug = <<>> /\ tpc = "output"

Init ==
    /\ copy \in {1, 2}
    /\ pc = "loop" /\ nfiles = 0
    /\ tree = NoTree
    /\ stack = <<>> /\ visited = <<>> /\ suggestions = <<>>
    /\ allSuggestions = <<>> /\ scans = <<>>
    /\ TagIdle

\* for (const file of relevant): the file is missing or does not parse
SkipFile ==
    /\ pc = "loop" /\ nfiles < MaxFiles
    /\ nfiles' = nfiles + 1
    /\ UNCHANGED <<copy, pc, tree, stack, visited, suggestions,
                   allSuggestions, scans, tagVars>>

\* the file parses: extractSuggestionsFromAST(ast, code, file) is entered
StartScan ==
    /\ pc = "loop" /\ nfiles < MaxFiles
    /\ \E t \in (IF scans = <<>> THEN Trees ELSE LaterTrees) : tree' = t
    /\ stack' = <<tree'.root>>
    /\ visited' = <<>> /\ suggestions' = <<>>
    /\ pc' = "visit"
    /\ UNCHANGED <<copy, nfiles, allSuggestions, scans, tagVars>>

\* visitJSXElement without its try/catch: the error leaves visit() and run
Visit_NoCatch ==
    /\ pc = "visit" /\ stack # <<>>
    /\ LET n == tree.nodes[Head(stack)]
           r == Classify(copy, n, nfiles + 1, Ordinal(suggestions, allSuggestions))
       IN  /\ suggestions' = IF r.outcome = "emit"
                             THEN Append(suggestions, r.rec) ELSE suggestions
           /\ stack' = IF r.outcome = "throw" THEN <<>>
                        ELSE Traverse(n, Tail(stack))
           /\ pc' = IF r.outcome = "throw" THEN "done" ELSE pc
    /\ visited' = Append(visited, Head(stack))
    /\ UNCHANGED <<copy, nfiles, tree, allSuggestions, scans, tagVars>>

\* visitJSXElement(path) on the next element of the traversal
Visit ==
    /\ pc = "visit" /\ stack # <<>>
    /\ LET n == tree.nodes[Head(stack)]
           r == Classify(copy, n, nfiles + 1, Ordinal(suggestions, allSuggestions))
       IN  /\ suggestions' = IF r.outcome = "emit"
                             THEN Append(suggestions, r.rec) ELSE suggestions
           /\ stack' = Traverse(n, Tail(stack))
    /\ visited' = Append(visited, Head(stack))
    /\ UNCHANGED <<copy, pc, nfiles, tree, allSuggestions, scans, tagVars>>

\* return suggestions; allSuggestions.push(...sug)
FinishScan ==
    /\ pc = "visit" /\ stack = <<>>
    /\ allSuggestions' = allSuggestions \o suggestions
    /\ scans' = Append(scans, [tree |-> tree, visited |-> visited,
                               result |-> suggestions])
    /\ nfiles' = nfiles + 1
    /\ pc' = "loop"
    /\ UNCHANGED <<copy, tree, stack, visited, suggestions, tagVars>>

\* the loop over relevant is over
EndRun ==
    /\ pc = "loop"
    /\ pc' = "done"
    /\ UNCHANGED <<copy, nfiles, tree, stack, visited, suggestions,
                   allSuggestions, scans, tagVars>>

Next == SkipFile \/ StartScan \/ Visit \/ FinishScan \/ EndRun

Spec == Init /\ [][Next]_vars

-----------------------------------------------------------------------------
(* generateTag called on its own *)

ScanIdle ==
    /\ copy = 1 /\ pc = "done" /\ nfiles = 0
    /\ tree = NoTree
    /\ stack = <<>> /\ visited = <<>> /\ suggestions = <<>>
    /\ allSuggestions = <<>> /\ scans = <<>>

InitTag ==
    /\ info \in Infos
    /\ parts = <<>> /\ slug = <<>> /\ tpc = "input"
    /\ ScanIdle

\* one call of generateTag(info)
CallGenerateTag ==
    /\ tpc = "input"
    /\ parts' = TagParts(info)
    /\ slug' = generateTag(info)
    /\ tpc' = "output"
    /\ UNCHANGED <<info, scanVars>>

NextTag == CallGenerateTag

SpecTag == InitTag /\ [][NextTag]_vars

-----------------------------------------------------------------------------
(* What the claims speak of *)

\* the element a suggestion was made for: its line names it
NodeOf(t, rec) == t.nodes[CHOOSE i \in DOMAIN t.nodes : t.nodes[i].line = rec.line]

EmittedIds(t, result) ==
    [k \in 1..Len(result) |->
        CHOOSE i \in DOMAIN t.nodes : t.nodes[i].line = result[k].line]

CarriesDataCy(n) == \E i \in 1..Len(n.attrs) : n.attrs[i].name = "data-cy"

\* what a suggestion is apart from the file it was found in
Bare(result) ==
    [k \in 1..Len(result) |->
        [line |-> result[k].line, tag |-> result[k].tag,
         text |-> result[k].text, dataCy |-> result[k].dataCy]]

Emits(c, n)  == Classify(c, n, 0, 0).outcome = "emit"
Throws(c, n) == Classify(c, n, 0, 0).outcome = "throw"

RECURSIVE SubtreeIds(_, _)
SubtreeIds(t, id) ==
    LET ks == ElementIds(t.nodes[id].children)
    IN  {id} \cup UNION {SubtreeIds(t, ks[i]) : i \in 1..Len(ks)}

\* d lies below a
IsDescendant(t, a, d) == d # a /\ d \in SubtreeIds(t, a)

\* x and y lie in the subtrees of two siblings, x in the one to the left
LeftOf(t, x, y) ==
    \E p \in DOMAIN t.nodes :
        LET ks == ElementIds(t.nodes[p].children)
        IN  \E i, j \in 1..Len(ks) :
                i < j /\ x \in SubtreeIds(t, ks[i]) /\ y \in SubtreeIds(t, ks[j])

\* the elements of t in pre-order, from the list ids of siblings
RECURSIVE PreOrder(_, _)
PreOrder(t, ids) ==
    IF ids = <<>> THEN <<>>
    ELSE <<Head(ids)>> \o PreOrder(t, ElementIds(t.nodes[Head(ids)].children))
                       \o PreOrder(t, Tail(ids))

Count(q, x) == Cardinality({i \in 1..Len(q) : q[i] = x})

-----------------------------------------------------------------------------
(* C1 *)

\* C1: an element that carries a data-cy attribute, with a literal or a
\* dynamic value, is in the result of no scan; and the scan of a tree in
\* which every element suggested by an earlier scan has got its data-cy
\* attribute returns the empty sequence.
C1_MarkedNeverEmitted ==
    \A k \in 1..Len(scans) :
        /\ \A m \in 1..Len(scans[k].result) :
              ~CarriesDataCy(NodeOf(scans[k].tree, scans[k].result[m]))
        /\ \A i \in 1..(k - 1) :
              scans[k].tree = Annotate(scans[i].tree, scans[i].result)
                  => scans[k].result = <<>>

\* a scan suggested something, the suggestions were applied, and the
\* rescan of the annotated tree came back empty
C1_Witness ==
    /\ Len(scans) >= 2
    /\ scans[1].result # <<>>
    /\ scans[2].tree = Annotate(scans[1].tree, scans[1].result)
    /\ scans[2].tree # scans[1].tree
    /\ scans[2].result = <<>>

-----------------------------------------------------------------------------
(* C2 *)

\* C2: an element whose tag is a component reference (an identifier that
\* starts with an uppercase letter) is in the result of no scan.
C2_ComponentNeverEmitted ==
    \A k \in 1..Len(scans) :
        \A m \in 1..Len(scans[k].result) :
            ~IsComponent(NodeOf(scans[k].tree, scans[k].result[m]))

-----------------------------------------------------------------------------
(* C3 *)

\* a div with role="button", direct text "Custom Button" and no data-cy
IsCustomDiv(n) ==
    /\ n.hasOpening /\ n.attrsOk
    /\ n.nameType = "JSXIdentifier" /\ n.name = S_div
    /\ \E i \in 1..Len(n.attrs) : n.attrs[i].name = "role" /\ n.attrs[i].lit = S_button
    /\ ~CarriesDataCy(n)
    /\ \E i \in 1..Len(n.children) :
          n.children[i].type = "JSXText" /\ trim(n.children[i].value) = H_custom

\* C3 as stated: the div with role="button" and text "Custom Button" that is
\* the N-th candidate of its scan gets the slug "button-custom-button-N".
C3_SlugButton ==
    \A k \in 1..Len(scans) :
        \A m \in 1..Len(scans[k].result) :
            IsCustomDiv(NodeOf(scans[k].tree, scans[k].result[m]))
                => scans[k].result[m].dataCy =
                      <<"b","u","t","t","o","n","-","c","u","s","t","o","m","-",
                        "b","u","t","t","o","n","-">> \o String(m - 1)

\* C3 amended: every such div is a candidate of its scan, and the one that
\* is the N-th candidate gets the slug "div-custom-button-N".
C3_SlugDiv ==
    \A k \in 1..Len(scans) :
        /\ \A i \in DOMAIN scans[k].tree.nodes :
              IsCustomDiv(scans[k].tree.nodes[i])
                  => Count(EmittedIds(scans[k].tree, scans[k].result), i) = 1
        /\ \A m \in 1..Len(scans[k].result) :
              IsCustomDiv(NodeOf(scans[k].tree, scans[k].result[m]))
                  => scans[k].result[m].dataCy =
                        <<"d","i","v","-","c","u","s","t","o","m","-",
                          "b","u","t","t","o","n","-">> \o String(m - 1)

\* the div was the third candidate of a scan
C3_Witness ==
    \E k \in 1..Len(scans) :
        /\ Len(scans[k].result) = 3
        /\ IsCustomDiv(NodeOf(scans[k].tree, scans[k].result[3]))
        /\ scans[k].result[3].dataCy =
              <<"d","i","v","-","c","u","s","t","o","m","-",
                "b","u","t","t","o","n","-","2">>

-----------------------------------------------------------------------------
(* C4 *)

\* C4: no two suggestions of one run have the same slug.
C4_SlugsDistinctInRun ==
    \A i, j \in 1..Len(allSuggestions) :
        i # j => allSuggestions[i].dataCy # allSuggestions[j].dataCy

-----------------------------------------------------------------------------
(* C5 *)

SlugChar(c) == IsAlnum(c) \/ c = "-"

\* C5: generateTag, given an index, returns a slug that is not empty, has at
\* most 60 characters, is made of [a-z0-9] and '-' only and has no two '-'
\* next to each other.
C5_SlugWellFormed ==
    (tpc = "output" /\ info.hasIndex) =>
        /\ slug # <<>>
        /\ Len(slug) <= 60
        /\ \A i \in 1..Len(slug) : SlugChar(slug[i])
        /\ \A i \in 1..(Len(slug) - 1) : ~(slug[i] = "-" /\ slug[i + 1] = "-")

\* role and text hint hold no character of [a-z0-9]: the slug is the index
C5_Witness ==
    /\ tpc = "output" /\ info.hasIndex
    /\ info.tag = <<"#">> /\ info.text = H_symbol
    /\ info.aria = NULL /\ info.alt = NULL
    /\ slug = String(info.index)

-----------------------------------------------------------------------------
(* C6 *)

NonBlank(v) == Truthy(v) /\ trim(v) # <<>>

\* the direct text: the first child that is text or a string literal and
\* is not blank, trimmed
RECURSIVE DirectText(_)
DirectText(ch) ==
    IF ch = <<>> THEN <<>>
    ELSE IF Head(ch).type \in {"JSXText", "JSXExpressionContainer"}
            /\ (Head(ch).type = "JSXExpressionContainer"
                    => Head(ch).etype = "StringLiteral")
            /\ NonBlank(Head(ch).value)
         THEN trim(Head(ch).value)
    ELSE DirectText(Tail(ch))

\* the literal given to the attribute nm, NULL when there is none
AttrLiteral(n, nm) ==
    IF \E i \in 1..Len(n.attrs) : n.attrs[i].name = nm
    THEN LET a == n.attrs[CHOOSE i \in 1..Len(n.attrs) : n.attrs[i].name = nm]
         IN  Or(a.lit, a.expr)
    ELSE NULL

FirstNonBlank(q) ==
    IF \E i \in 1..Len(q) : NonBlank(q[i])
    THEN q[CHOOSE i \in 1..Len(q) :
              NonBlank(q[i]) /\ \A j \in 1..(i - 1) : ~NonBlank(q[j])]
    ELSE <<>>

ExpectedHint(n) ==
    FirstNonBlank(<<DirectText(n.children), AttrLiteral(n, "aria-label"),
                    AttrLiteral(n, "placeholder"), AttrLiteral(n, "alt"),
                    AttrLiteral(n, "title"), toLowerCase(n.name)>>)

\* C6: the hint in the record of a suggested element is the first source
\* that is not blank, in the order direct text, aria-label, placeholder,
\* alt, title, tag.
C6_HintIsFirstNonBlank ==
    \A k \in 1..Len(scans) :
        \A m \in 1..Len(scans[k].result) :
            trim(scans[k].result[m].text)
                = trim(ExpectedHint(NodeOf(scans[k].tree, scans[k].result[m])))

-----------------------------------------------------------------------------
(* C7 *)

\* C7: in the result of a scan a suggested element comes before every
\* suggested element below it, of two suggested elements in the subtrees
\* of two siblings the one to the left comes first, and the result holds
\* every element that qualifies once and no other element.
C7_PreOrderOnce ==
    \A k \in 1..Len(scans) :
        LET t  == scans[k].tree
            em == EmittedIds(t, scans[k].result)
        IN  /\ \A i, j \in 1..Len(em) :
                  (IsDescendant(t, em[i], em[j]) \/ LeftOf(t, em[i], em[j]))
                      => i < j
            /\ \A id \in DOMAIN t.nodes :
                  Count(em, id) = IF Emits(copy, t.nodes[id]) THEN 1 ELSE 0

\* a scan returned an element, an element below it and an element in the
\* subtree of a sibling to the right
C7_Witness ==
    \E k \in 1..Len(scans) :
        LET t  == scans[k].tree
            em == EmittedIds(t, scans[k].result)
        IN  /\ Len(em) >= 3
            /\ \E a, b, c \in 1..Len(em) :
                  /\ IsDescendant(t, em[a], em[b])
                  /\ LeftOf(t, em[b], em[c])

-----------------------------------------------------------------------------
(* C8 *)

\* the visit of an element whose classification throws: nothing is added
\* to suggestions, the scan goes on, and the element children of the element
\* are what is visited next
ErrorStep ==
    (pc = "visit" /\ stack # <<>> /\ Throws(copy, tree.nodes[Head(stack)])) =>
        /\ pc' = "visit"
        /\ suggestions' = suggestions
        /\ visited' = Append(visited, Head(stack))
        /\ stack' = ElementIds(tree.nodes[Head(stack)].children) \o Tail(stack)

\* C8: an error in the classification of one element does not abort the
\* scan: the step adds no candidate and leaves those accumulated as they
\* are, and the finished scan has visited every element of the tree once,
\* the elements below the failing one and the rest of the tree included.
C8_ErrorDoesNotAbort ==
    /\ [][ErrorStep]_vars
    /\ [](\A k \in 1..Len(scans) :
            /\ scans[k].visited = PreOrder(scans[k].tree, <<scans[k].tree.root>>)
            /\ \A m \in 1..Len(scans[k].result) :
                  ~Throws(copy, NodeOf(scans[k].tree, scans[k].result[m])))

\* a finished scan whose classification threw on an element that has a
\* suggestion before it and a suggestion below it
C8_Witness ==
    \E k \in 1..Len(scans) :
        LET t  == scans[k].tree
            em == EmittedIds(t, scans[k].result)
        IN  \E e \in DOMAIN t.nodes :
                /\ Throws(copy, t.nodes[e])
                /\ Len(em) = 3
                /\ IsDescendant(t, em[1], e)
                /\ IsDescendant(t, e, em[2])

-----------------------------------------------------------------------------
(* C10 *)

\* C10: two scans of the same tree return the same candidates with the
\* same slugs, whatever was scanned between them.
C10_Deterministic ==
    \A i, j \in 1..Len(scans) :
        scans[i].tree = scans[j].tree
            => Bare(scans[i].result) = Bare(scans[j].result)

\* the same tree was scanned a second time after a scan that had returned
\* suggestions
C10_Witness ==
    /\ Len(scans) >= 2
    /\ scans[1].tree = scans[2].tree
    /\ Len(scans[1].result) >= 2
    /\ allSuggestions # <<>>

-----------------------------------------------------------------------------
(* C9 *)

\* the words of s: its maximal runs of characters that are no whitespace
WordsOf(s) ==
    LET from == Indices([i \in 1..Len(s) |->
                            ~IsSpace(s[i]) /\ (i = 1 \/ IsSpace(s[i - 1]))])
        to   == Indices([i \in 1..Len(s) |->
                            ~IsSpace(s[i]) /\ (i = Len(s) \/ IsSpace(s[i + 1]))])
    IN  [k \in 1..Len(from) |-> SubSeq(s, from[k], to[k])]

\* the hint generateTag works on
HintOf(i) == Or(i.text, Or(i.aria, Or(i.placeholder, Or(i.alt, <<>>))))

\* the token of parts that comes from the text hint
TextToken == parts[IF Truthy(info.compPath) THEN 3 ELSE 2]

\* C9: the text token of generateTag is made of the first min(5, n) words
\* of the first line of the hint, joined by single spaces, whatever
\* whitespace separates the words.
C9_FirstFiveWords ==
    (tpc = "output" /\ WordsOf(split(HintOf(info), "\n")[1]) # <<>>) =>
        LET w == WordsOf(split(HintOf(info), "\n")[1])
        IN  TextToken = join(SubSeq(w, 1, IF Len(w) < 5 THEN Len(w) ELSE 5),
                             <<" ">>)

-----------------------------------------------------------------------------
(* C11 *)

\* C11: no slug returned by generateTag begins or ends with the separator
\* '-', also when the joined tokens are longer than 60 characters and the
\* slug is cut after the separators at the ends were stripped.
C11_NoSeparatorAtEnds ==
    (tpc = "output" /\ slug # <<>>) =>
        slug[1] # "-" /\ slug[Len(slug)] # "-"

====
